---------------------------- MODULE Spec2Model ----------------------------
(***************************************************************************)
(* The scan-job listing service of main.py.                                *)
(*                                                                         *)
(* The document store (one tenant directory, one job collection per tenant *)
(* database) is the only shared state.  A listing call is three reads of   *)
(* the store: the tenant lookup (line 77), the page fetch (lines 107-108)  *)
(* and the count (line 143).  Other clients of the store may write between *)
(* the page fetch and the count, and between calls; a write before the     *)
(* page fetch of a call is a write between calls.                          *)
(*                                                                         *)
(* Each specification draws the stored documents from a finite set of      *)
(* documents that differ in the fields its properties are about; _id is    *)
(* unique in the store.                                                    *)
(*                                                                         *)
(* Values of string-like document fields are records [t, v] with           *)
(* t in {"null", "str", "oid"} and v a sequence of one-character strings;  *)
(* timestamps are records [t, v] with t in {"null", "date", "text"} and v a *)
(* number of ticks, TicksPerSecond ticks to the second ("text" is a stored *)
(* string that is not a timestamp); stored integers are records [t, v]     *)
(* with t in {"null", "int"}.                                              *)
(***************************************************************************)
EXTENDS Integers, Sequences, FiniteSets, TLC

VARIABLES
    tenants,      \* the collection asd_remus_qc.tenants
    store,        \* the job documents of every scan_jobs_asset_discovery collection
    pc,           \* where the listing call stands
    req,          \* the arguments of the call in flight
    tenant,       \* local `tenant` of get_scan_jobs_by_status, Absent for None
    collection,   \* local `collection` (a database name), Absent while unbound
    query,        \* local `query`, Absent while unbound
    all_jobs,     \* local `all_jobs`
    resp,         \* what the call returned to its caller
    reads,        \* store reads issued by the call in flight
    writes,       \* store writes by other clients since the page fetch of the call in flight
    down,         \* TRUE while the store cannot be reached
    faults,       \* the reads of the call in flight that the store failed
    posts,        \* the outbound POSTs of the request in flight, in the order issued,
                  \* each with the request sent and its answer
    sweep,        \* history: for each page number that is recorded, the ids of the
                  \* items of the last envelope returned for that page
    ui,           \* the data of the page's scanJobManager
    net           \* the page's traffic: the listing requests in flight, and as
                  \* history the request whose response the page shows and
                  \* whether a request was answered with an error since the
                  \* last one was issued

vars ==
    <<tenants, store, pc, req, tenant, collection, query, all_jobs, resp, reads, writes,
      down, faults, posts, sweep, ui, net>>

---------------------------------------------------------------------------
(* Bounds of the model *)

MaxDocs == 3

MaxTime == 2

MaxPage == 3

MaxPageSize == 2

MaxRaceWrites == 1

\* The resolution of timestamps, and the latest timestamp in ticks
TicksPerSecond == 2

MaxTick == 3

\* The listing requests of the page that may be in flight at once, and the
\* greatest page the page's buttons are pressed for
MaxInflight == 2

MaxUiPage == 2

---------------------------------------------------------------------------
(* Values *)

NullStr == [t |-> "null", v |-> <<>>]

Str(s) == [t |-> "str", v |-> s]

Oid(s) == [t |-> "oid", v |-> s]

NullDate == [t |-> "null", v |-> 0]

Date(n) == [t |-> "date", v |-> n]

\* A stored string that no timestamp parser accepts
TextDate == [t |-> "text", v |-> 0]

NullInt == [t |-> "null", v |-> 0]

IntVal(n) == [t |-> "int", v |-> n]

\* An optional value (None, or an unbound local) is the empty set; a present one is {x}
Absent == {}

Some(x) == {x}

The(o) == CHOOSE x \in o : TRUE

\* A request parameter of type Optional[str]: absent (None) or a string
NoParam == [t |-> "null", v |-> ""]

Param(s) == [t |-> "str", v |-> s]

\* Python truth of an Optional[str] parameter: None and "" are false
Truthy(p) == p.t = "str" /\ p.v # ""

\* Python truth of an optional search string (a sequence of characters)
TruthyStr(x) == x.t = "str" /\ x.v # <<>>

\* str(value) of an ObjectId or a string
PyStr(x) == x.v

Min(a, b) == IF a <= b THEN a ELSE b

Abs(a) == IF a < 0 THEN -a ELSE a

\* Python's a // b on integers: the floor of a / b, for b # 0
PyFloorDiv(a, b) ==
    CHOOSE q \in -(Abs(a) + 1) .. (Abs(a) + 1) :
        \E r \in -(Abs(b)) .. Abs(b) :
            /\ a = q * b + r
            /\ IF b > 0 THEN 0 <= r /\ r < b ELSE b < r /\ r <= 0

---------------------------------------------------------------------------
(* The tenant directory *)

AcmeId == Oid(<<"a", "c">>)

GlobexId == Str(<<"g", "x">>)

TenantDirectory ==
    { [name |-> "acme",   _id |-> AcmeId,   db_name |-> "db_acme"],
      [name |-> "globex", _id |-> GlobexId, db_name |-> "db_globex"] }

\* tenant_collection.find_one({"name": name}): a matching record or None
FindOneTenant(dir, name) ==
    IF \E t \in dir : t.name = name
    THEN Some(CHOOSE t \in dir : t.name = name)
    ELSE Absent

---------------------------------------------------------------------------
(* Regular expressions, as MongoDB's $regex with option "i" evaluates them *)

\* Case folding of one character
Lower(c) ==
    CASE c = "A" -> "a"
      [] c = "B" -> "b"
      [] c = "C" -> "c"
      [] OTHER -> c

\* One pattern atom against one character, ignoring case: "." is any character
AtomMatches(a, c) == a = "." \/ Lower(a) = Lower(c)

\* A pattern the server rejects: an unclosed group, or a quantifier with
\* nothing to repeat
RegexInvalid(re) ==
    \/ \E i \in 1 .. Len(re) : re[i] = "("
    \/ \E i \in 1 .. Len(re) : re[i] = "*" /\ (i = 1 \/ re[i - 1] = "*")

RECURSIVE MatchHere(_, _, _, _)
RECURSIVE MatchStar(_, _, _, _)
\* pattern re from atom i matches a prefix of text from position j
MatchHere(re, i, text, j) ==
    IF i > Len(re) THEN TRUE
    ELSE IF i < Len(re) /\ re[i + 1] = "*" THEN MatchStar(re, i, text, j)
    ELSE /\ j <= Len(text)
         /\ AtomMatches(re[i], text[j])
         /\ MatchHere(re, i + 1, text, j + 1)

\* atom re[i] repeated zero or more times, then the rest of the pattern
MatchStar(re, i, text, j) ==
    \/ MatchHere(re, i + 2, text, j)
    \/ /\ j <= Len(text)
       /\ AtomMatches(re[i], text[j])
       /\ MatchStar(re, i, text, j + 1)

\* {field: {"$regex": re, "$options": "i"}}: an unanchored match, on strings only
RegexMatches(re, value) ==
    /\ value.t = "str"
    /\ \E j \in 1 .. Len(value.v) + 1 : MatchHere(re, 1, value.v, j)

---------------------------------------------------------------------------
(* Job documents and queries *)

\* A stored job document: the database it is stored in, its fields, and in
\* extra the names of the fields it has that ScanJob does not have
Doc(id, db, tenant_id, domain, status, is_latest, created_at, error_message) ==
    [_id |-> id, db |-> db, tenant_id |-> tenant_id, domain |-> domain,
     status |-> status, is_latest |-> is_latest, created_at |-> created_at,
     error_message |-> error_message, completed_at |-> NullDate,
     duration |-> NullInt, documents_processed |-> NullInt, extra |-> {}]

\* A query with the legacy status aliases (success, in_progress)
BuildQueryAliased(status_filter, search, tenant_filter, t) ==
    [is_latest |-> TRUE,
     or |-> IF TruthyStr(search) THEN Some(search.v) ELSE Absent,
     status |->
        IF Truthy(status_filter)
        THEN CASE status_filter.v = "failed" -> Some({"failed"})
               [] status_filter.v = "completed" -> Some({"completed", "success"})
               [] status_filter.v = "running" -> Some({"running", "in_progress"})
               [] OTHER -> Absent
        ELSE Absent,
     tenant_id |-> IF Truthy(tenant_filter) THEN Some(t._id) ELSE Absent]

\* A query that leaves out the tenant_id restriction of line 104
BuildQueryAnyTenant(status_filter, search, tenant_filter, t) ==
    [is_latest |-> TRUE,
     or |-> IF TruthyStr(search) THEN Some(search.v) ELSE Absent,
     status |->
        IF Truthy(status_filter)
        THEN CASE status_filter.v = "failed" -> Some({"failed"})
               [] status_filter.v = "completed" -> Some({"completed"})
               [] status_filter.v = "running" -> Some({"running"})
               [] OTHER -> Absent
        ELSE Absent,
     tenant_id |-> Absent]

\* The query document of lines 87-104
BuildQuery(status_filter, search, tenant_filter, t) ==
    [is_latest |-> TRUE,
     or |-> IF TruthyStr(search) THEN Some(search.v) ELSE Absent,
     status |->
        IF Truthy(status_filter)
        THEN CASE status_filter.v = "failed" -> Some({"failed"})
               [] status_filter.v = "completed" -> Some({"completed"})
               [] status_filter.v = "running" -> Some({"running"})
               [] OTHER -> Absent
        ELSE Absent,
     tenant_id |-> IF Truthy(tenant_filter) THEN Some(t._id) ELSE Absent]

\* The server cannot evaluate the query
QueryInvalid(q) == q.or # Absent /\ RegexInvalid(The(q.or))

\* A match that does not look at is_latest
MatchesQueryAnyVersion(q, d) ==
    /\ \/ q.or = Absent
       \/ RegexMatches(The(q.or), d.domain)
       \/ RegexMatches(The(q.or), d.tenant_id)
       \/ RegexMatches(The(q.or), d.error_message)
    /\ q.status = Absent \/ d.status \in The(q.status)
    /\ q.tenant_id = Absent \/ d.tenant_id = The(q.tenant_id)

\* Document d satisfies query q
MatchesQuery(q, d) ==
    /\ d.is_latest = q.is_latest
    /\ \/ q.or = Absent
       \/ RegexMatches(The(q.or), d.domain)
       \/ RegexMatches(The(q.or), d.tenant_id)
       \/ RegexMatches(The(q.or), d.error_message)
    /\ q.status = Absent \/ d.status \in The(q.status)
    /\ q.tenant_id = Absent \/ d.tenant_id = The(q.tenant_id)

\* collection.find(query) on client[db]["scan_jobs_asset_discovery"], as a set
Find(docs, db, q) == {d \in docs : d.db = db /\ MatchesQuery(q, d)}

\* A count that stops at the limit of the page
CountDocumentsOfPage(docs, db, q) == Min(Cardinality(Find(docs, db, q)), Abs(req.page_size))

\* collection.count_documents(query)
CountDocuments(docs, db, q) == Cardinality(Find(docs, db, q))

\* BSON order of two created_at values: null sorts before every string and
\* every string before every date
CreatedLess(a, b) ==
    \/ a.t = "null" /\ b.t \in {"text", "date"}
    \/ a.t = "text" /\ b.t = "date"
    \/ a.t = "date" /\ b.t = "date" /\ a.v < b.v

\* A sort in ascending order
SortedAsc(seq) ==
    \A i, j \in 1 .. Len(seq) :
        i < j => ~CreatedLess(seq[j].created_at, seq[i].created_at)

\* .sort("created_at", -1): no document is followed by one with a greater key
SortedDesc(seq) ==
    \A i, j \in 1 .. Len(seq) :
        i < j => ~CreatedLess(seq[i].created_at, seq[j].created_at)

\* Every order the server may give documents S in (ties are in no fixed order)
SortedOrders(S) ==
    {f \in [1 .. Cardinality(S) -> S] :
        /\ \A i, j \in 1 .. Cardinality(S) : i # j => f[i] # f[j]
        /\ SortedDesc(f)}

\* A cursor without a limit
CursorUnlimited(ord, skip, limit) == SubSeq(ord, skip + 1, Len(ord))

\* .skip(skip).limit(limit) on the sorted documents: limit 0 is no limit, and a
\* negative limit is a limit of its absolute value
Cursor(ord, skip, limit) ==
    LET lim == IF limit = 0 THEN Len(ord) ELSE Abs(limit)
    IN  SubSeq(ord, skip + 1, Min(skip + lim, Len(ord)))

---------------------------------------------------------------------------
(* Normalisation of a fetched document: lines 109-136 *)

\* int(x) of a quotient a / b with b > 0: the fraction is dropped
PyInt(a, b) == IF a >= 0 THEN a \div b ELSE -((-a) \div b)

\* A duration that is 0 when a timestamp is missing
DurationOrZero(created_at, completed_at) ==
    IF created_at.t = "date" /\ completed_at.t = "date"
    THEN IntVal(PyInt(completed_at.v - created_at.v, TicksPerSecond))
    ELSE IntVal(0)

\* Lines 111-120: both timestamps are there and parse, or duration stays None
Duration(created_at, completed_at) ==
    IF created_at.t = "date" /\ completed_at.t = "date"
    THEN IntVal(PyInt(completed_at.v - created_at.v, TicksPerSecond))
    ELSE NullInt

\* ScanJob(...) accepts the document: domain is a required str, created_at
\* and completed_at are datetimes or None
ScanJobValid(d) ==
    /\ d.domain.t # "null"
    /\ d.created_at.t # "text"
    /\ d.completed_at.t # "text"

\* A record that carries the document's other fields along
ScanJobOfForwarding(d, t) ==
    [id |-> d._id,
     database |-> t.db_name,
     collection |-> "scan_jobs_asset_discovery",
     status |-> d.status,
     is_latest |-> d.is_latest,
     tenant_id |-> PyStr(d.tenant_id),
     domain |-> PyStr(d.domain),
     created_at |-> d.created_at,
     completed_at |-> d.completed_at,
     error_message |-> d.error_message,
     duration |-> Duration(d.created_at, d.completed_at),
     documents_processed |-> d.documents_processed,
     extra |-> d.extra]

\* serialize_mongo_doc followed by ScanJob(...)
ScanJobOf(d, t) ==
    [id |-> d._id,
     database |-> t.db_name,
     collection |-> "scan_jobs_asset_discovery",
     status |-> d.status,
     is_latest |-> d.is_latest,
     tenant_id |-> PyStr(d.tenant_id),
     domain |-> PyStr(d.domain),
     created_at |-> d.created_at,
     completed_at |-> d.completed_at,
     error_message |-> d.error_message,
     duration |-> Duration(d.created_at, d.completed_at),
     documents_processed |-> d.documents_processed]

\* The loop of lines 108-136: a document ScanJob rejects raises, which ends the
\* loop with the jobs appended so far
LoopJobs(docs, t) ==
    LET bad == {i \in 1 .. Len(docs) : ~ScanJobValid(docs[i])}
        n   == IF bad = {} THEN Len(docs)
               ELSE (CHOOSE i \in bad : \A k \in bad : i <= k) - 1
    IN  [i \in 1 .. n |-> ScanJobOf(docs[i], t)]

\* The identifiers of a sequence of jobs
JobIdSeq(seq) == [i \in 1 .. Len(seq) |-> seq[i].id]

\* A page count that rounds down
PagesRoundedDown(total, page_size) == PyFloorDiv(total, page_size)

\* "pages": (total_count + page_size - 1) // page_size
Pages(total, page_size) == PyFloorDiv(total + page_size - 1, page_size)

Envelope(total, items, page, page_size) ==
    [kind |-> "envelope", total |-> total, items |-> items, page |-> page,
     page_size |-> page_size, pages |-> Pages(total, page_size)]

\* An HTTPException or an unhandled exception leaves the handler
Failure(code, exc) == [kind |-> "error", status |-> code, exc |-> exc]

NoResponse == [kind |-> "none"]

NoRequest ==
    [route |-> "", status_filter |-> NoParam, search |-> NullStr, tenant_filter |-> NoParam,
     page |-> 1, page_size |-> 1, job_id |-> ""]

---------------------------------------------------------------------------
(* The store's other clients *)

DocIds(docs) == {d._id : d \in docs}

\* Another client inserts document d: _id is unique in the store
InsertDoc(d) ==
    /\ pc \in {"idle", "count"}
    /\ Cardinality(store) < MaxDocs
    /\ d._id \notin DocIds(store)
    /\ pc = "count" => writes < MaxRaceWrites
    /\ store' = store \cup {d}
    /\ writes' = IF pc = "count" THEN writes + 1 ELSE writes
    /\ UNCHANGED <<tenants, pc, req, tenant, collection, query, all_jobs, resp, reads,
                   down, faults, posts,
                   sweep, ui, net>>

\* Another client deletes document d
DeleteDoc(d) ==
    /\ pc \in {"idle", "count"}
    /\ d \in store
    /\ pc = "count" => writes < MaxRaceWrites
    /\ store' = store \ {d}
    /\ writes' = IF pc = "count" THEN writes + 1 ELSE writes
    /\ UNCHANGED <<tenants, pc, req, tenant, collection, query, all_jobs, resp, reads,
                   down, faults, posts,
                   sweep, ui, net>>

\* Another client sets the status of document d
UpdateDoc(d, status) ==
    /\ pc \in {"idle", "count"}
    /\ d \in store
    /\ d.status # status
    /\ pc = "count" => writes < MaxRaceWrites
    /\ store' = (store \ {d}) \cup {[d EXCEPT !.status = status]}
    /\ writes' = IF pc = "count" THEN writes + 1 ELSE writes
    /\ UNCHANGED <<tenants, pc, req, tenant, collection, query, all_jobs, resp, reads,
                   down, faults, posts,
                   sweep, ui, net>>

\* The store becomes unreachable: every read fails until it recovers
StoreFails ==
    /\ ~down
    /\ down' = TRUE
    /\ UNCHANGED <<tenants, store, pc, req, tenant, collection, query, all_jobs, resp, reads,
                   writes, faults, posts,
                   sweep, ui, net>>

\* The store can be reached again
StoreRecovers ==
    /\ down
    /\ down' = FALSE
    /\ UNCHANGED <<tenants, store, pc, req, tenant, collection, query, all_jobs, resp, reads,
                   writes, faults, posts,
                   sweep, ui, net>>

---------------------------------------------------------------------------
(* A listing call *)

\* An endpoint that starts the query whatever the tenant parameter is
EndpointUnchecked(bucket, search, tenant_param, page, page_size) ==
    /\ pc = "idle"
    /\ req' = [route |-> bucket,
               status_filter |-> IF bucket = "all" THEN NoParam ELSE Param(bucket),
               search |-> search, tenant_filter |-> tenant_param,
               page |-> page, page_size |-> page_size, job_id |-> ""]
    /\ resp' = NoResponse
    /\ pc' = "lookup"
    /\ reads' = 0
    /\ writes' = 0
    /\ faults' = {}
    /\ posts' = <<>>
    /\ UNCHANGED <<tenants, store, tenant, collection, query, all_jobs, down,
                   sweep, ui, net>>

\* GET /api/{bucket}-jobs, lines 1473-1503: bucket "all" passes status_filter None
Endpoint(bucket, search, tenant_param, page, page_size) ==
    /\ pc = "idle"
    /\ req' = [route |-> bucket,
               status_filter |-> IF bucket = "all" THEN NoParam ELSE Param(bucket),
               search |-> search, tenant_filter |-> tenant_param,
               page |-> page, page_size |-> page_size, job_id |-> ""]
    /\ IF ~Truthy(tenant_param)
       THEN /\ resp' = Failure(400, "HTTPException")
            /\ pc' = "done"
       ELSE /\ resp' = NoResponse
            /\ pc' = "lookup"
    /\ reads' = 0
    /\ writes' = 0
    /\ faults' = {}
    /\ posts' = <<>>
    /\ UNCHANGED <<tenants, store, tenant, collection, query, all_jobs, down,
                   sweep, ui, net>>

\* Line 77: the tenant is looked up by name when a name is given.  The lookup
\* stands before the try block: what find_one raises leaves the call.
TenantLookup ==
    /\ pc = "lookup"
    /\ IF ~Truthy(req.tenant_filter)
       THEN /\ tenant' = Absent
            /\ reads' = reads
            /\ faults' = faults
            /\ resp' = resp
            /\ pc' = "fetch"
       ELSE IF down
       THEN /\ tenant' = Absent
            /\ reads' = reads + 1
            /\ faults' = faults \cup {"lookup"}
            /\ resp' = Failure(500, "ConnectionFailure")
            /\ pc' = "done"
       ELSE /\ tenant' = FindOneTenant(tenants, req.tenant_filter.v)
            /\ reads' = reads + 1
            /\ faults' = faults
            /\ resp' = resp
            /\ pc' = "fetch"
    /\ UNCHANGED <<tenants, store, req, collection, query, all_jobs, writes, down, posts,
                   sweep, ui, net>>

\* Lines 80-139: the try block.  tenant["db_name"] on None raises before
\* collection and query are bound; a negative skip raises in the driver; an
\* unreachable store or an invalid query raises when the cursor is first
\* read.  Each is caught at 138.
Fetch ==
    /\ pc = "fetch"
    /\ IF tenant = Absent
       THEN /\ collection' = Absent
            /\ query' = Absent
            /\ all_jobs' = <<>>
            /\ reads' = reads
            /\ faults' = faults
       ELSE LET t == The(tenant)
                q == BuildQuery(req.status_filter, req.search, req.tenant_filter, t)
                skip == (req.page - 1) * req.page_size
            IN  /\ collection' = Some(t.db_name)
                /\ query' = Some(q)
                /\ IF skip < 0
                   THEN /\ all_jobs' = <<>>
                        /\ reads' = reads
                        /\ faults' = faults
                   ELSE IF down
                   THEN /\ all_jobs' = <<>>
                        /\ reads' = reads + 1
                        /\ faults' = faults \cup {"fetch"}
                   ELSE IF QueryInvalid(q)
                   THEN /\ all_jobs' = <<>>
                        /\ reads' = reads + 1
                        /\ faults' = faults
                   ELSE /\ \E ord \in SortedOrders(Find(store, t.db_name, q)) :
                              all_jobs' = LoopJobs(Cursor(ord, skip, req.page_size), t)
                        /\ reads' = reads + 1
                        /\ faults' = faults
    /\ pc' = "count"
    /\ writes' = 0
    /\ UNCHANGED <<tenants, store, req, tenant, resp, down, posts, sweep, ui, net>>

\* Lines 143-153: the count, outside the try block, and the envelope
Count ==
    /\ pc = "count"
    /\ IF collection = Absent
       THEN /\ resp' = Failure(500, "UnboundLocalError")
            /\ reads' = reads
            /\ faults' = faults
       ELSE IF down
       THEN /\ resp' = Failure(500, "ConnectionFailure")
            /\ reads' = reads + 1
            /\ faults' = faults \cup {"count"}
       ELSE IF QueryInvalid(The(query))
       THEN /\ resp' = Failure(500, "OperationFailure")
            /\ reads' = reads + 1
            /\ faults' = faults
       ELSE /\ reads' = reads + 1
            /\ faults' = faults
            /\ resp' =
                 IF req.page_size = 0
                 THEN Failure(500, "ZeroDivisionError")
                 ELSE Envelope(CountDocuments(store, The(collection), The(query)),
                               all_jobs, req.page, req.page_size)
    /\ pc' = "done"
    /\ sweep' = IF resp'.kind = "envelope" /\ req.page \in DOMAIN sweep
                THEN [sweep EXCEPT ![req.page] = Some(JobIdSeq(all_jobs))]
                ELSE sweep
    /\ UNCHANGED <<tenants, store, req, tenant, collection, query, all_jobs, writes,
                   down, posts, ui, net>>

---------------------------------------------------------------------------
(* Restarts *)

\* What becomes of an outbound POST: a response with a status code, or an
\* exception of the HTTP client (no connection, timeout)
HttpOutcomes ==
    {[kind |-> "status", code |-> c] : c \in {200, 201, 404, 500}}
        \cup {[kind |-> "raised", code |-> 0]}

\* A POST that has been sent and not answered
Pending == [kind |-> "pending", code |-> 0]

\* A request that names the job
ScanAllRequestOfJob(job_id) == [method |-> "POST", url |-> "http://we.in.se/scan_all", job |-> job_id]

\* Line 158: the POST restart_scan sends for job_id, in which job names the
\* job the request is about, "" when it is about none
ScanAllRequest(job_id) == [method |-> "POST", url |-> "http://we.in.se/scan_all", job |-> ""]

\* A restart_scan that takes every response for a success
RestartScanAnyStatus(outcome) == outcome.kind = "status"

\* restart_scan, lines 157-162: True for status 200, False for every other
\* status and for an exception
RestartScan(outcome) == outcome.kind = "status" /\ outcome.code = 200

RestartResponse(success, message, restarted_jobs) ==
    [kind |-> "restart", success |-> success, message |-> message,
     restarted_jobs |-> restarted_jobs]

\* POST /api/restart-job/{job_id} up to the await of line 158: the POST to
\* the scan service is sent; job_id is not part of it
RestartJob(job_id) ==
    /\ pc = "idle"
    /\ req' = [NoRequest EXCEPT !.route = "restart-job", !.job_id = job_id]
    /\ posts' = <<[request |-> ScanAllRequest(job_id), answer |-> Pending]>>
    /\ resp' = NoResponse
    /\ pc' = "post"
    /\ reads' = 0
    /\ writes' = 0
    /\ faults' = {}
    /\ UNCHANGED <<tenants, store, tenant, collection, query, all_jobs, down,
                   sweep, ui, net>>

\* Lines 158-162 and 1536-1540: the POST is answered or fails, restart_scan
\* returns, and restart_job answers
RestartJobReturns(outcome) ==
    /\ pc = "post"
    /\ req.route = "restart-job"
    /\ posts' = [posts EXCEPT ![Len(posts)].answer = outcome]
    /\ LET success == RestartScan(outcome)
       IN  resp' = RestartResponse(success,
                     IF success THEN "Job restart initiated successfully"
                                ELSE "Failed to restart job",
                     IF success THEN 1 ELSE 0)
    /\ pc' = "done"
    /\ UNCHANGED <<tenants, store, req, tenant, collection, query, all_jobs, reads, writes,
                   down, faults,
                   sweep, ui, net>>

\* pageSize of the page's scanJobManager
PagePageSize == 10

\* The defaults of get_scan_jobs_by_status for page and page_size
DefaultPage == 1

DefaultPageSize == 10

\* POST /api/restart-all-failed, line 1545: get_scan_jobs_by_status("failed")
\* with every other argument at its default, so without a tenant.  The call
\* goes on as TenantLookup, Fetch and Count; with tenant None it leaves Count
\* with an exception, and lines 1547-1564 are not reached.
RestartAllFailed ==
    /\ pc = "idle"
    /\ req' = [NoRequest EXCEPT !.route = "restart-all-failed",
                                !.status_filter = Param("failed"),
                                !.page = DefaultPage,
                                !.page_size = DefaultPageSize]
    /\ resp' = NoResponse
    /\ pc' = "lookup"
    /\ reads' = 0
    /\ writes' = 0
    /\ faults' = {}
    /\ posts' = <<>>
    /\ UNCHANGED <<tenants, store, tenant, collection, query, all_jobs, down,
                   sweep, ui, net>>

\* The response has gone to the caller; the call's frame is dropped
Deliver ==
    /\ pc = "done"
    /\ pc' = "idle"
    /\ req' = NoRequest
    /\ tenant' = Absent
    /\ collection' = Absent
    /\ query' = Absent
    /\ all_jobs' = <<>>
    /\ resp' = NoResponse
    /\ reads' = 0
    /\ writes' = 0
    /\ faults' = {}
    /\ posts' = <<>>
    /\ UNCHANGED <<tenants, store, down, sweep, ui, net>>

\* The data of scanJobManager() when the page is opened, lines 1162-1175
InitialPage ==
    [allJobs |-> <<>>, searchQuery |-> "", tenantFilter |-> "", tenants |-> <<>>,
     loading |-> FALSE, activeFilter |-> "failed", currentPage |-> 1,
     pageSize |-> PagePageSize, totalPages |-> 1, totalItems |-> 0]

NoTraffic == [inflight |-> {}, shown |-> Absent, failed |-> FALSE]

Init ==
    /\ tenants = TenantDirectory
    /\ store = {}
    /\ pc = "idle"
    /\ req = NoRequest
    /\ tenant = Absent
    /\ collection = Absent
    /\ query = Absent
    /\ all_jobs = <<>>
    /\ resp = NoResponse
    /\ reads = 0
    /\ writes = 0
    /\ down = FALSE
    /\ faults = {}
    /\ posts = <<>>
    /\ sweep = <<>>
    /\ ui = InitialPage
    /\ net = NoTraffic

\* The steps of a call, the same in every specification
CallStep == TenantLookup \/ Fetch \/ Count \/ Deliver

---------------------------------------------------------------------------
(* Spec: pagination and order.  Documents of tenant acme that differ in     *)
(* created_at and in whether ScanJob accepts them.                          *)

Times == {NullDate} \cup {Date(n) : n \in 1 .. MaxTime}

PagingDocs ==
    {Doc(<<dm, c>>, "db_acme", AcmeId, dm, "failed", TRUE, c, NullStr) :
        dm \in {NullStr, Str(<<"a", "b">>), Str(<<"c">>)}, c \in Times}

Next ==
    \/ \E d \in PagingDocs : InsertDoc(d)
    \/ \E d \in store : DeleteDoc(d)
    \/ \E b \in {"failed", "all"}, p \in 0 .. MaxPage, ps \in -1 .. MaxPageSize :
          Endpoint(b, NullStr, Param("acme"), p, ps)
    \/ CallStep

Spec == Init /\ [][Next]_vars

---------------------------------------------------------------------------
(* SpecBucket: status buckets and is_latest.  Documents of tenant acme that *)
(* differ in status and in is_latest.                                       *)

Statuses == {"failed", "completed", "running", "success"}

Buckets == {"failed", "completed", "running", "all"}

BucketDocs ==
    {Doc(<<st, l>>, "db_acme", AcmeId, Str(<<"a", "b">>), st, l, Date(1), NullStr) :
        st \in Statuses, l \in BOOLEAN}

NextBucket ==
    \/ \E d \in BucketDocs : InsertDoc(d)
    \/ \E d \in store : DeleteDoc(d)
    \/ \E b \in Buckets, p \in 1 .. 2 :
          Endpoint(b, NullStr, Param("acme"), p, MaxPageSize)
    \/ CallStep

SpecBucket == Init /\ [][NextBucket]_vars

---------------------------------------------------------------------------
(* SpecTenant: tenant scoping.  Documents that differ in the database they  *)
(* are stored in and in their tenant_id; requests for a known tenant, an    *)
(* unknown one, an empty name and no name.                                  *)

TenantDocs ==
    {Doc(<<db, tid, l>>, db, tid, Str(<<"a", "b">>), "failed", l, Date(1), NullStr) :
        db \in {"db_acme", "db_globex"}, tid \in {AcmeId, GlobexId}, l \in BOOLEAN}

TenantParams ==
    {NoParam, Param(""), Param("acme"), Param("globex"), Param("nobody")}

NextTenant ==
    \/ \E d \in TenantDocs : InsertDoc(d)
    \/ \E d \in store : DeleteDoc(d)
    \/ \E b \in Buckets, tp \in TenantParams :
          Endpoint(b, NullStr, tp, 1, MaxPageSize)
    \/ CallStep

SpecTenant == Init /\ [][NextTenant]_vars

---------------------------------------------------------------------------
(* SpecSearch: the search filter.  Documents that differ in domain and      *)
(* error_message, of a tenant whose _id is an ObjectId and of one whose _id *)
(* is a string; search strings with and without regular-expression syntax.  *)

Domains == {Str(<<"a", "b">>), Str(<<"a", ".", "b">>), Str(<<"g">>)}

ErrorMessages == {NullStr, Str(<<"B", "(">>)}

SearchDocs ==
    {Doc(<<o.db, dm, em>>, o.db, o.id, dm, "failed", TRUE, Date(1), em) :
        o \in {[db |-> "db_acme", id |-> AcmeId],
               [db |-> "db_globex", id |-> GlobexId]},
        dm \in Domains, em \in ErrorMessages}

Searches ==
    {NullStr, Str(<<>>), Str(<<"A">>), Str(<<"a", "b">>), Str(<<"a", ".">>),
     Str(<<"a", "*", "b">>), Str(<<"(">>), Str(<<"X">>)}

NextSearch ==
    \/ \E d \in SearchDocs : InsertDoc(d)
    \/ \E d \in store : DeleteDoc(d)
    \/ \E sr \in Searches, tp \in {Param("acme"), Param("globex")} :
          Endpoint("all", sr, tp, 1, MaxPageSize)
    \/ CallStep

SpecSearch == Init /\ [][NextSearch]_vars

---------------------------------------------------------------------------
(* SpecFailure: store failures.  The store becomes unreachable and recovers *)
(* at any moment, so each of the three reads of a call may fail or succeed  *)
(* independently of the others.                                             *)

FailureDocs ==
    {Doc(<<c>>, "db_acme", AcmeId, Str(<<"a", "b">>), "failed", TRUE, c, NullStr) :
        c \in Times}

NextFailure ==
    \/ \E d \in FailureDocs : InsertDoc(d)
    \/ \E d \in store : DeleteDoc(d)
    \/ StoreFails
    \/ StoreRecovers
    \/ \E b \in {"failed", "all"} : Endpoint(b, NullStr, Param("acme"), 1, MaxPageSize)
    \/ CallStep

SpecFailure == Init /\ [][NextFailure]_vars

---------------------------------------------------------------------------
(* SpecDuration: normalisation.  The collection of tenant acme holds one or *)
(* two documents that differ in created_at, completed_at and the duration   *)
(* they store; a timestamp is missing, a string that is no timestamp, or a  *)
(* date.  A document that stores a duration also stores a count of          *)
(* documents processed and a field ScanJob does not have.  Nothing is       *)
(* written while the calls run.                                             *)

DurationTimes == {NullDate, TextDate} \cup {Date(n) : n \in 0 .. MaxTick}

DurationDocs ==
    {[Doc(<<c, e, du>>, "db_acme", AcmeId, Str(<<"a", "b">>), "completed", TRUE, c, NullStr)
         EXCEPT !.completed_at = e, !.duration = du,
                !.documents_processed = du,
                !.extra = IF du = NullInt THEN {} ELSE {"scan_config"}] :
        c \in DurationTimes, e \in DurationTimes, du \in {NullInt, IntVal(7)}}

InitDuration ==
    /\ tenants = TenantDirectory
    /\ store \in {{d1, d2} : d1 \in DurationDocs, d2 \in DurationDocs}
    /\ pc = "idle"
    /\ req = NoRequest
    /\ tenant = Absent
    /\ collection = Absent
    /\ query = Absent
    /\ all_jobs = <<>>
    /\ resp = NoResponse
    /\ reads = 0
    /\ writes = 0
    /\ down = FALSE
    /\ faults = {}
    /\ posts = <<>>
    /\ sweep = <<>>
    /\ ui = InitialPage
    /\ net = NoTraffic

NextDuration ==
    \/ \E b \in {"completed", "all"} :
          Endpoint(b, NullStr, Param("acme"), 1, MaxPageSize)
    \/ CallStep

SpecDuration == InitDuration /\ [][NextDuration]_vars

---------------------------------------------------------------------------
(* SpecRestart: restarts.  Jobs of both tenants, failed and completed;      *)
(* restart requests for ids that are and are not ids of stored jobs; every  *)
(* outcome of the outbound POST.                                            *)

RestartDocs ==
    {Doc(<<o.db, st, c>>, o.db, o.id, Str(<<"a", "b">>), st, TRUE, c, NullStr) :
        o \in {[db |-> "db_acme", id |-> AcmeId],
               [db |-> "db_globex", id |-> GlobexId]},
        st \in {"failed", "completed"}, c \in {Date(1), Date(2)}}

JobIds == {"j1", "j2", "nope"}

NextRestart ==
    \/ \E d \in RestartDocs : InsertDoc(d)
    \/ \E d \in store : DeleteDoc(d)
    \/ \E id \in JobIds : RestartJob(id)
    \/ \E o \in HttpOutcomes : RestartJobReturns(o)
    \/ RestartAllFailed
    \/ CallStep

SpecRestart == Init /\ [][NextRestart]_vars

---------------------------------------------------------------------------
(* SpecRace: racing writes.  Other clients insert, delete and update the    *)
(* jobs of tenant acme between the page fetch and the count of a call and   *)
(* between calls; every request has page >= 1 and page_size >= 1.           *)

RaceDocs ==
    {Doc(<<c>>, "db_acme", AcmeId, Str(<<"a", "b">>), st, TRUE, c, NullStr) :
        st \in {"failed", "running"}, c \in {Date(1), Date(2), Date(3)}}

NextRace ==
    \/ \E d \in RaceDocs : InsertDoc(d)
    \/ \E d \in store : DeleteDoc(d)
    \/ \E d \in store, st \in {"failed", "running"} : UpdateDoc(d, st)
    \/ \E b \in {"failed", "all"}, p \in 1 .. 2, ps \in 1 .. MaxPageSize :
          Endpoint(b, NullStr, Param("acme"), p, ps)
    \/ CallStep

SpecRace == Init /\ [][NextRace]_vars

---------------------------------------------------------------------------
(* The page's scanJobManager, lines 1160-1430.  Its handlers run to their   *)
(* first await in one step; the response to a listing request arrives in a  *)
(* later step, in any order with the responses to other requests.  The      *)
(* service is seen from the page: it answers a request with the envelope of *)
(* lines 147-153 for the number of jobs the request matches when it is      *)
(* served, or with an error.  The restart buttons are left out.             *)

\* loadJobs up to its await, lines 1340-1362: the page after the call
LoadJobsPage(u) ==
    IF u.tenantFilter = "" /\ u.tenants = <<>>
    THEN u
    ELSE [u EXCEPT !.tenantFilter = IF @ = "" THEN u.tenants[1] ELSE @,
                   !.loading = TRUE]

\* loadJobs up to its await: the requests it sends, none without a tenant
LoadJobsRequests(u) ==
    IF u.tenantFilter = "" /\ u.tenants = <<>>
    THEN {}
    ELSE {[bucket |-> u.activeFilter, page |-> u.currentPage, page_size |-> u.pageSize,
           search |-> u.searchQuery,
           tenant |-> IF u.tenantFilter = "" THEN u.tenants[1] ELSE u.tenantFilter]}

\* The page calls loadJobs in state u
CallLoadJobs(u) ==
    /\ Cardinality(net.inflight \cup LoadJobsRequests(u)) <= MaxInflight
    /\ ui' = LoadJobsPage(u)
    /\ net' = [net EXCEPT !.inflight = @ \cup LoadJobsRequests(u),
                          !.failed = @ /\ LoadJobsRequests(u) = {}]
    /\ UNCHANGED <<tenants, store, pc, req, tenant, collection, query, all_jobs, resp, reads,
                   writes, down, faults, posts, sweep>>

\* loadTenants, lines 1206-1223: the tenant names arrive; the first one is
\* selected when none is, and the jobs are loaded
LoadTenantsReturns ==
    /\ ui.tenants = <<>>
    /\ LET u == [ui EXCEPT !.tenants = <<"acme", "globex">>]
       IN  IF u.tenantFilter = ""
           THEN CallLoadJobs([u EXCEPT !.tenantFilter = u.tenants[1]])
           ELSE /\ ui' = u
                /\ UNCHANGED <<tenants, store, pc, req, tenant, collection, query, all_jobs,
                               resp, reads, writes, down, faults, posts, sweep, net>>

\* Lines 1226-1236
SetActiveFilter(filter) ==
    CallLoadJobs([ui EXCEPT !.activeFilter = filter,
                            !.currentPage = 1,
                            !.tenantFilter = IF @ = "" /\ ui.tenants # <<>>
                                             THEN ui.tenants[1] ELSE @])

\* Lines 1001 and 1238-1242: a tenant is chosen in the select
SetTenantFilter(t) ==
    /\ \E i \in 1 .. Len(ui.tenants) : ui.tenants[i] = t
    /\ CallLoadJobs([ui EXCEPT !.tenantFilter = t, !.currentPage = 1])

\* Lines 1008-1011 and 1244-1248: the button shows while there is a search
\* string and is disabled while loading
ClearFilters ==
    /\ ui.searchQuery # ""
    /\ ~ui.loading
    /\ CallLoadJobs([ui EXCEPT !.searchQuery = "", !.currentPage = 1])

\* Lines 987-991 and 1383-1390: q is typed into the search box and Enter is
\* pressed
HandleSearch(q) ==
    CallLoadJobs([ui EXCEPT !.searchQuery = q,
                            !.currentPage = 1,
                            !.tenantFilter = IF @ = "" /\ ui.tenants # <<>>
                                             THEN ui.tenants[1] ELSE @])

\* Lines 1096 and 1250-1254: the pagination shows while not loading and
\* totalPages > 1; a page out of 1 .. totalPages is ignored
GoToPage(page) ==
    /\ ~ui.loading
    /\ ui.totalPages > 1
    /\ ~(page < 1 \/ page > ui.totalPages)
    /\ CallLoadJobs([ui EXCEPT !.currentPage = page])

\* Line 946: the refresh button calls loadJobs; it is disabled while loading
Refresh ==
    /\ ~ui.loading
    /\ CallLoadJobs(ui)

\* The items of the envelope for request r when it matches total jobs: the
\* positions of the window in the matching jobs
WindowItems(r, total) ==
    LET skip == (r.page - 1) * r.page_size
        rest == IF total - skip < 0 THEN 0 ELSE total - skip
    IN  [i \in 1 .. Min(r.page_size, rest) |-> skip + i]

\* Lines 1362-1380: the answer to request r arrives.  An envelope replaces
\* the page's list, totals and current page; an error leaves them.
LoadJobsReturns(r, total, ok) ==
    /\ r \in net.inflight
    /\ IF ok
       THEN LET e == Envelope(total, WindowItems(r, total), r.page, r.page_size)
            IN  /\ ui' = [ui EXCEPT !.allJobs = e.items,
                                    !.totalItems = e.total,
                                    !.totalPages = e.pages,
                                    !.currentPage = e.page,
                                    !.loading = FALSE]
                /\ net' = [net EXCEPT !.inflight = @ \ {r}, !.shown = Some(r)]
       ELSE /\ ui' = [ui EXCEPT !.loading = FALSE]
            /\ net' = [net EXCEPT !.inflight = @ \ {r}, !.failed = TRUE]
    /\ UNCHANGED <<tenants, store, pc, req, tenant, collection, query, all_jobs, resp, reads,
                   writes, down, faults, posts, sweep>>

---------------------------------------------------------------------------
(* SpecSweep: the pages of one query.  The collection of tenant acme holds  *)
(* one document more than a page takes, with created_at values that may     *)
(* coincide; nothing is written; the calls ask for the pages of the same    *)
(* bucket, tenant and page_size in any order, and the items of each page    *)
(* are recorded.                                                            *)

SweepDocs(created) ==
    {Doc(k, "db_acme", AcmeId, Str(<<"a", "b">>), "failed", TRUE, created[k], NullStr) :
        k \in DOMAIN created}

InitSweep ==
    /\ tenants = TenantDirectory
    /\ \E created \in [1 .. MaxPageSize + 1 -> {Date(n) : n \in 1 .. MaxPageSize + 1}] :
           store = SweepDocs(created)
    /\ pc = "idle"
    /\ req = NoRequest
    /\ tenant = Absent
    /\ collection = Absent
    /\ query = Absent
    /\ all_jobs = <<>>
    /\ resp = NoResponse
    /\ reads = 0
    /\ writes = 0
    /\ down = FALSE
    /\ faults = {}
    /\ posts = <<>>
    /\ sweep = [p \in 1 .. MaxPage |-> Absent]
    /\ ui = InitialPage
    /\ net = NoTraffic

NextSweep ==
    \/ \E p \in 1 .. MaxPage : Endpoint("all", NullStr, Param("acme"), p, MaxPageSize)
    \/ CallStep

SpecSweep == InitSweep /\ [][NextSweep]_vars

---------------------------------------------------------------------------
(* SpecUi: the page.  A user presses the filter buttons, chooses tenants,   *)
(* searches, clears the search, pages and refreshes while earlier requests  *)
(* are in flight; the number of jobs a request matches is any of Totals     *)
(* each time one is served, as other clients write to the store.            *)

UiFilters == {"failed", "all"}

UiSearches == {"", "a"}

Totals == {0, PagePageSize \div 2, PagePageSize * (MaxUiPage - 1) + 1}

NextUi ==
    \/ LoadTenantsReturns
    \/ \E f \in UiFilters : SetActiveFilter(f)
    \/ \E t \in {"acme", "globex"} : SetTenantFilter(t)
    \/ ClearFilters
    \/ \E q \in UiSearches : HandleSearch(q)
    \/ \E p \in 0 .. MaxUiPage + 1 : GoToPage(p)
    \/ Refresh
    \/ \E r \in net.inflight, total \in Totals, ok \in BOOLEAN : LoadJobsReturns(r, total, ok)

SpecUi == Init /\ [][NextUi]_vars

---------------------------------------------------------------------------
(* Properties of the page envelope *)

\* The call in flight has returned a page envelope
Returned == pc = "done" /\ resp.kind = "envelope"

\* No other client wrote between the reads of the call
Quiet == writes = 0

\* The documents the query of the returned call matches in the store as it is
Matching == Find(store, The(collection), The(query))

\* The identifiers of a sequence of documents
DocIdSeq(seq) == [i \in 1 .. Len(seq) |-> seq[i]._id]

\* C1: every returned envelope with page_size >= 1 has pages = ceil(total /
\* page_size), the least n with n * page_size >= total
PagesIsCeiling ==
    (Returned /\ resp.page_size >= 1) =>
        /\ resp.total >= 0
        /\ resp.pages * resp.page_size >= resp.total
        /\ (resp.pages - 1) * resp.page_size < resp.total

\* C1: a total that page_size does not divide was returned
PagesIsCeilingWitness ==
    /\ Returned
    /\ resp.page_size = 2
    /\ resp.total = 3
    /\ resp.pages = 2

\* C2: without writes during the call, for page >= 1 and page_size >= 1 the
\* items are the documents at positions (page-1)*page_size+1 .. page*page_size
\* of the matching documents in some descending order of created_at
ItemsAreWindow ==
    (Returned /\ Quiet /\ req.page >= 1 /\ req.page_size >= 1) =>
        \E ord \in SortedOrders(Matching) :
            JobIdSeq(resp.items) =
                DocIdSeq(SubSeq(ord, (req.page - 1) * req.page_size + 1,
                                Min(req.page * req.page_size, Len(ord))))

\* C4: in every returned envelope no item is followed by one created later,
\* and an item without created_at is followed only by items without one
ItemsNewestFirst ==
    Returned =>
        \A i, j \in 1 .. Len(resp.items) :
            i < j =>
                LET a == resp.items[i].created_at
                    b == resp.items[j].created_at
                IN  /\ (a.t = "date" /\ b.t = "date") => a.v >= b.v
                    /\ a.t = "null" => b.t = "null"

\* C4: a page of a dated item followed by one without created_at
ItemsNewestFirstWitness ==
    /\ Returned
    /\ Len(resp.items) = 2
    /\ resp.items[1].created_at.t = "date"
    /\ resp.items[2].created_at.t = "null"

\* C3: a returned envelope whose page is greater than pages has no items, the
\* page as requested, and the total and pages of the call for page 1, which
\* counts the same query
BeyondLastPageIsEmpty ==
    (Returned /\ Quiet /\ resp.page > resp.pages) =>
        /\ resp.items = <<>>
        /\ resp.page = req.page
        /\ resp.total = CountDocuments(store, The(collection), The(query))
        /\ resp.pages = Pages(resp.total, req.page_size)

---------------------------------------------------------------------------
(* Properties of the filters *)

\* The documents of tenant t that the call for bucket b, without a search,
\* matches in the store as it is
BucketMatches(t, b) ==
    Find(store, t.db_name, BuildQuery(Param(b), NullStr, Param(t.name), t))

\* C5: a returned envelope of the failed, completed or running bucket holds
\* only items whose status is the bucket's name, and in every store no
\* document is matched by two of the three buckets
BucketsExclusive ==
    /\ (Returned /\ req.route \in {"failed", "completed", "running"}) =>
          \A i \in 1 .. Len(resp.items) : resp.items[i].status = req.route
    /\ \A t \in tenants :
          \A b1, b2 \in {"failed", "completed", "running"} :
              b1 # b2 => BucketMatches(t, b1) \cap BucketMatches(t, b2) = {}

\* C5: the completed bucket returned an item while the store holds a latest
\* document of another status
BucketsExclusiveWitness ==
    /\ Returned
    /\ req.route = "completed"
    /\ Len(resp.items) >= 1
    /\ \E d \in store : d.is_latest /\ d.status = "success"

\* The stored documents that pass every filter of the returned call other than
\* is_latest
MatchingAnyVersion ==
    {d \in store :
        /\ d.db = The(collection)
        /\ MatchesQuery([The(query) EXCEPT !.is_latest = d.is_latest], d)}

\* C7: every item of a returned envelope has is_latest = true, and total is the
\* number of stored documents with is_latest = true that pass the other filters
OnlyLatest ==
    Returned =>
        /\ \A i \in 1 .. Len(resp.items) : resp.items[i].is_latest = TRUE
        /\ resp.total = Cardinality({d \in MatchingAnyVersion : d.is_latest = TRUE})

\* C7: an envelope was returned while a document that is not the latest passes
\* the other filters
OnlyLatestWitness ==
    /\ Returned
    /\ resp.total >= 1
    /\ Len(resp.items) >= 1
    /\ \E d \in MatchingAnyVersion : d.is_latest = FALSE

\* The tenant record the request names
NamedTenant == CHOOSE t \in tenants : t.name = req.tenant_filter.v

\* The stored documents of the named tenant: those of its database that carry
\* its _id as tenant_id
OwnDocs ==
    {d \in store : d.db = NamedTenant.db_name /\ d.tenant_id = NamedTenant._id}

\* C8: without writes during the call, a returned envelope for a tenant that
\* resolves holds only that tenant's documents, and it is an envelope the same
\* call gives on the store without the documents of other tenants
TenantIsolation ==
    (Returned /\ Quiet /\ \E t \in tenants : t.name = req.tenant_filter.v) =>
        /\ \A i \in 1 .. Len(resp.items) :
              /\ resp.items[i].id \in DocIds(OwnDocs)
              /\ resp.items[i].tenant_id = PyStr(NamedTenant._id)
              /\ resp.items[i].database = NamedTenant.db_name
        /\ resp.total = CountDocuments(OwnDocs, The(collection), The(query))
        /\ \E ord \in SortedOrders(Find(OwnDocs, The(collection), The(query))) :
              resp.items =
                  LoopJobs(Cursor(ord, (req.page - 1) * req.page_size, req.page_size),
                           NamedTenant)

\* C8: an envelope with an item was returned while the tenant's database holds
\* a document of another tenant and another database holds one with its _id
TenantIsolationWitness ==
    /\ Returned
    /\ Quiet
    /\ Len(resp.items) >= 1
    /\ \E d \in store : d.db = NamedTenant.db_name /\ d.tenant_id # NamedTenant._id
    /\ \E d \in store : d.db # NamedTenant.db_name /\ d.tenant_id = NamedTenant._id

\* C9: a request to any of the four listing endpoints with tenant absent or
\* empty is never past the endpoint's check, and ends with status 400 and no
\* read of the store
TenantRequired ==
    (req.route \in Buckets /\ ~Truthy(req.tenant_filter)) =>
        /\ pc = "done"
        /\ resp.kind = "error"
        /\ resp.status = 400
        /\ reads = 0

\* C9: the all-jobs endpoint was called with an empty tenant
TenantRequiredWitness ==
    /\ pc = "done"
    /\ req.route = "all"
    /\ req.tenant_filter = Param("")
    /\ resp.kind = "error"

\* C10: a call whose tenant name matches no record of the tenant directory
\* returns an envelope with no items, total 0 and pages 0
UnknownTenantIsEmpty ==
    (/\ pc = "done"
     /\ Truthy(req.tenant_filter)
     /\ \A t \in tenants : t.name # req.tenant_filter.v) =>
        /\ resp.kind = "envelope"
        /\ resp.items = <<>>
        /\ resp.total = 0
        /\ resp.pages = 0

\* The characters of s from position j on begin with the characters of w
StartsWithAt(s, j, w) ==
    /\ j + Len(w) - 1 <= Len(s)
    /\ \A k \in 1 .. Len(w) : Lower(s[j + k - 1]) = Lower(w[k])

\* w, lower-cased, is a literal substring of the lower-cased text of a value
ContainsIgnoreCase(x, w) ==
    /\ x.t # "null"
    /\ \E j \in 1 .. Len(x.v) + 1 : StartsWithAt(x.v, j, w)

\* C6: without writes during the call, a call with a non-empty search string
\* returns an envelope whose total is the number of the tenant's latest
\* documents that contain the search string, ignoring case, in domain,
\* tenant_id or error_message
SearchIsSubstring ==
    (pc = "done" /\ Quiet /\ TruthyStr(req.search)
        /\ \E t \in tenants : t.name = req.tenant_filter.v) =>
        /\ resp.kind = "envelope"
        /\ resp.total =
              Cardinality({d \in OwnDocs :
                  /\ d.is_latest
                  /\ req.route \in {"failed", "completed", "running"} =>
                        d.status = req.route
                  /\ \/ ContainsIgnoreCase(d.domain, req.search.v)
                     \/ ContainsIgnoreCase(d.tenant_id, req.search.v)
                     \/ ContainsIgnoreCase(d.error_message, req.search.v)})

---------------------------------------------------------------------------
(* Store failures *)

\* C11: a call whose tenant lookup, page fetch or count the store failed
\* still returns an envelope, with no items when the fetch failed and a
\* total of 0 when the count failed
StoreFailureSwallowed ==
    (pc = "done" /\ faults # {}) =>
        /\ resp.kind = "envelope"
        /\ "fetch" \in faults => resp.items = <<>>
        /\ "count" \in faults => resp.total = 0 /\ resp.pages = 0

---------------------------------------------------------------------------
(* Normalisation *)

\* The stored document a returned job was made from
StoredDoc(job) == CHOOSE d \in store : d._id = job.id

\* C12: in every returned job whose created_at and completed_at are dates
\* with created_at <= completed_at, duration is their difference in whole
\* seconds (0 when they are equal), whatever duration the document stores;
\* when either timestamp is missing, duration is null
DurationIsDifference ==
    Returned =>
        \A i \in 1 .. Len(resp.items) :
            LET job  == resp.items[i]
                diff == job.completed_at.v - job.created_at.v
            IN  /\ job.created_at.t # "text" /\ job.completed_at.t # "text"
                /\ (job.created_at.t = "date" /\ job.completed_at.t = "date" /\ diff >= 0) =>
                       /\ job.duration.t = "int"
                       /\ job.duration.v * TicksPerSecond <= diff
                       /\ diff < (job.duration.v + 1) * TicksPerSecond
                /\ (job.created_at.t = "null" \/ job.completed_at.t = "null") =>
                       job.duration = NullInt

\* C12: a job that took a second and a half was returned with duration 1
\* although its document stores another duration, next to one that has no
\* completed_at
DurationIsDifferenceWitness ==
    /\ Returned
    /\ Len(resp.items) = 2
    /\ \E i, k \in 1 .. 2 :
           /\ resp.items[i].completed_at.v - resp.items[i].created_at.v = 3
           /\ resp.items[i].completed_at.t = "date"
           /\ resp.items[i].created_at.t = "date"
           /\ resp.items[i].duration = IntVal(1)
           /\ StoredDoc(resp.items[i]).duration = IntVal(7)
           /\ resp.items[k].completed_at = NullDate
           /\ resp.items[k].duration = NullInt

\* C13: every document of a page that holds the whole matching set is
\* returned as a job, whatever optional fields it lacks and whatever its
\* timestamps are: a timestamp that does not parse is returned as null, with
\* duration null, and the other fields are those of the document
NormalisationNeverFails ==
    (Returned /\ resp.page = 1 /\ Cardinality(Matching) <= resp.page_size) =>
        \A d \in Matching :
            \E i \in 1 .. Len(resp.items) :
                LET job == resp.items[i]
                IN  /\ job.id = d._id
                    /\ job.status = d.status
                    /\ job.domain = PyStr(d.domain)
                    /\ job.error_message = d.error_message
                    /\ job.documents_processed = d.documents_processed
                    /\ d.created_at.t = "text" =>
                           job.created_at = NullDate /\ job.duration = NullInt
                    /\ d.completed_at.t = "text" =>
                           job.completed_at = NullDate /\ job.duration = NullInt

\* The fields of the job record in the data model of the specification
RecordTableFields ==
    {"id", "tenant_id", "domain", "status", "is_latest", "created_at", "completed_at",
     "duration", "error_message", "documents_processed"}

\* C14 as stated: every returned job carries exactly the fields of the
\* record table
ItemsCarryTableFields ==
    Returned => \A i \in 1 .. Len(resp.items) : DOMAIN resp.items[i] = RecordTableFields

\* C14: every returned job carries exactly the fields of the record table
\* and the two fields database and collection, which name where the job is
\* stored; no other field of the stored document is forwarded
ItemsCarryScanJobFields ==
    Returned =>
        \A i \in 1 .. Len(resp.items) :
            /\ DOMAIN resp.items[i] = RecordTableFields \cup {"database", "collection"}
            /\ resp.items[i].database = The(collection)
            /\ resp.items[i].collection = "scan_jobs_asset_discovery"

\* C14: a job was returned whose document has a field ScanJob does not have
ItemsCarryScanJobFieldsWitness ==
    /\ Returned
    /\ \E i \in 1 .. Len(resp.items) :
           /\ StoredDoc(resp.items[i]).extra = {"scan_config"}
           /\ resp.items[i].documents_processed = IntVal(7)

---------------------------------------------------------------------------
(* Restarts *)

\* C15: a restart-job request sends one POST and answers, never with an
\* error: success is TRUE exactly when the POST was answered with status
\* 200, and restarted_jobs is 1 when success is TRUE and 0 otherwise
RestartJobAnswer ==
    (pc = "done" /\ req.route = "restart-job") =>
        /\ Len(posts) = 1
        /\ resp.kind = "restart"
        /\ resp.success = (posts[1].answer = [kind |-> "status", code |-> 200])
        /\ resp.restarted_jobs = IF resp.success THEN 1 ELSE 0

\* C15: a restart-job request whose POST was answered with a status other
\* than 200 answered success = FALSE
RestartJobAnswerWitness ==
    /\ pc = "done"
    /\ req.route = "restart-job"
    /\ Len(posts) = 1
    /\ posts[1].answer = [kind |-> "status", code |-> 201]
    /\ resp = RestartResponse(FALSE, "Failed to restart job", 0)

\* The request in flight is a restart-all-failed request that has answered
BulkAnswered == pc = "done" /\ req.route = "restart-all-failed"

\* The failed jobs the store holds
FailedJobs == {d \in store : d.status = "failed" /\ d.is_latest}

\* C16: with no failed job in the store, a restart-all-failed request
\* answers success = TRUE and restarted_jobs = 0 and sends no POST
NoFailedJobsAnswer ==
    (BulkAnswered /\ FailedJobs = {}) =>
        /\ posts = <<>>
        /\ resp.kind = "restart"
        /\ resp.success
        /\ resp.restarted_jobs = 0

\* C17: a restart-all-failed request sends exactly one POST for every failed
\* job of the store
OneRestartPerFailedJob ==
    (BulkAnswered /\ Quiet) => Len(posts) = Cardinality(FailedJobs)

\* C18: a restart-all-failed request answers with restarted_jobs the number
\* of its restart calls that returned TRUE, between 0 and the number of
\* failed jobs, when there is a failed job
RestartedJobsCountsSuccesses ==
    (BulkAnswered /\ Quiet /\ FailedJobs # {}) =>
        /\ resp.kind = "restart"
        /\ resp.restarted_jobs = Cardinality({i \in 1 .. Len(posts) : RestartScan(posts[i].answer)})
        /\ 0 <= resp.restarted_jobs
        /\ resp.restarted_jobs <= Cardinality(FailedJobs)

---------------------------------------------------------------------------
(* Paging arguments out of range, and racing writes *)

\* A paging argument as it is when values below 1 are taken for 1
AtLeastOne(n) == IF n < 1 THEN 1 ELSE n

\* C19: a listing call with page <= 0 or page_size <= 0 is rejected with a
\* validation error, or answers with an envelope whose page count is not
\* negative and that holds no more items than the page size with 1 in place
\* of a value below 1; it never ends in an unhandled error
InvalidPagingHandled ==
    (pc = "done" /\ (req.page <= 0 \/ req.page_size <= 0)) =>
        \/ resp.kind = "error" /\ resp.status \in {400, 422}
        \/ /\ resp.kind = "envelope"
           /\ resp.pages >= 0
           /\ Len(resp.items) <= AtLeastOne(req.page_size)

\* C20: a listing call with page >= 1 and page_size >= 1 completes with an
\* envelope that has total >= 0, pages >= 0 and at most page_size items,
\* whatever other clients inserted, deleted or updated between its page
\* fetch and its count
RaceBounded ==
    (pc = "done" /\ req.page >= 1 /\ req.page_size >= 1) =>
        /\ resp.kind = "envelope"
        /\ resp.total >= 0
        /\ resp.pages >= 0
        /\ Len(resp.items) <= req.page_size

\* C20: a call returned more items than its total, after a write between
\* its page fetch and its count
RaceBoundedWitness ==
    /\ Returned
    /\ writes > 0
    /\ req.page_size >= 1
    /\ resp.total < Len(resp.items)

---------------------------------------------------------------------------
(* The total and the pages of one query *)

\* The documents the filters of the request select in the store as it is:
\* those of the named tenant's database that its bucket, search and tenant
\* select
Selected ==
    Find(store, NamedTenant.db_name,
         BuildQuery(req.status_filter, req.search, req.tenant_filter, NamedTenant))

\* C21: without writes during the call, the total of a returned envelope is
\* the number of documents the bucket, search and tenant of the request
\* select, whatever its page and page_size are
TotalIsMatchCount ==
    (Returned /\ Quiet) => resp.total = Cardinality(Selected)

\* C21: the second page of a query that selects three documents was
\* returned with one item and total 3
TotalIsMatchCountWitness ==
    /\ Returned
    /\ Quiet
    /\ req.page = 2
    /\ req.page_size = 2
    /\ Len(resp.items) = 1
    /\ resp.total = 3

\* C22: in every returned job whose created_at and completed_at are dates,
\* duration is the floor of their difference in seconds, also when
\* completed_at is the earlier one
DurationIsFloor ==
    Returned =>
        \A i \in 1 .. Len(resp.items) :
            LET job  == resp.items[i]
                diff == job.completed_at.v - job.created_at.v
            IN  (job.created_at.t = "date" /\ job.completed_at.t = "date") =>
                    /\ job.duration.t = "int"
                    /\ job.duration.v * TicksPerSecond <= diff
                    /\ diff < (job.duration.v + 1) * TicksPerSecond

---------------------------------------------------------------------------
(* The bulk restart *)

\* C23: when a restart-all-failed request answers while the store holds two
\* or more failed jobs, a restart call has been issued for each of them,
\* whatever became of the others, and every issued call has completed
FanOutCompletes ==
    (BulkAnswered /\ Quiet /\ Cardinality(FailedJobs) >= 2) =>
        /\ Len(posts) >= 2
        /\ \A i \in 1 .. Len(posts) : posts[i].answer # Pending

---------------------------------------------------------------------------
(* The pages of one query *)

\* The places, as <<page, index>>, at which the recorded pages 1 .. n hold
\* the job with identifier id
PlacesOf(id, n) ==
    {pi \in (1 .. n) \X (1 .. Cardinality(store)) :
        /\ pi[2] <= Len(The(sweep[pi[1]]))
        /\ The(sweep[pi[1]])[pi[2]] = id}

\* C24: when nothing is written and every page from 1 to the page count of
\* a query has been returned, each matching document is on exactly one of
\* these pages, at one place
PagesPartition ==
    LET n == Pages(Cardinality(store), MaxPageSize)
    IN  (DOMAIN sweep # {} /\ \A p \in 1 .. n : sweep[p] # Absent) =>
            \A d \in store : Cardinality(PlacesOf(d._id, n)) = 1

\* C25: without writes during the call, for page >= 1 and page_size >= 1
\* the number of items of a returned envelope is
\* min(page_size, max(0, total - (page - 1) * page_size)), whatever the
\* documents of the page hold
ItemCountIsWindowSize ==
    (Returned /\ Quiet /\ req.page >= 1 /\ req.page_size >= 1) =>
        LET rest == resp.total - (req.page - 1) * req.page_size
        IN  Len(resp.items) = Min(req.page_size, IF rest < 0 THEN 0 ELSE rest)

\* C26: when the store holds a failed job, a restart-all-failed request
\* answers with success = TRUE exactly when one of its restart calls
\* returned TRUE, and with restarted_jobs = 0 when none did
SuccessIffSomeRestart ==
    (BulkAnswered /\ Quiet /\ FailedJobs # {}) =>
        /\ resp.kind = "restart"
        /\ resp.success = (\E i \in 1 .. Len(posts) : RestartScan(posts[i].answer))
        /\ ~resp.success => resp.restarted_jobs = 0

\* C27: whatever the job id of a restart-job request is, the POST it sends
\* is the same request, which names no job, its response is determined by
\* the answer to that POST alone, and it reads nothing from the store
RestartIgnoresJobId ==
    (pc \in {"post", "done"} /\ req.route = "restart-job") =>
        /\ Len(posts) = 1
        /\ posts[1].request =
              [method |-> "POST", url |-> "http://we.in.se/scan_all", job |-> ""]
        /\ reads = 0
        /\ faults = {}
        /\ pc = "done" =>
              resp = IF posts[1].answer = [kind |-> "status", code |-> 200]
                     THEN RestartResponse(TRUE, "Job restart initiated successfully", 1)
                     ELSE RestartResponse(FALSE, "Failed to restart job", 0)

\* C27: a restart-job request for an id that names no stored job answered
\* success = TRUE while the store holds a job
RestartIgnoresJobIdWitness ==
    /\ pc = "done"
    /\ req.route = "restart-job"
    /\ req.job_id = "nope"
    /\ store # {}
    /\ resp.kind = "restart"
    /\ resp.success

---------------------------------------------------------------------------
(* The page *)

\* C28: once no listing request of the page is in flight and none was
\* answered with an error since the last one was issued, the list and the totals the page shows are those
\* of the response to the request for its current activeFilter,
\* tenantFilter, searchQuery and currentPage
ShownIsCurrent ==
    (net.inflight = {} /\ net.shown # Absent /\ ~net.failed) =>
        LET r == The(net.shown)
        IN  /\ r.bucket = ui.activeFilter
            /\ r.tenant = ui.tenantFilter
            /\ r.search = ui.searchQuery
            /\ r.page = ui.currentPage

\* C29: the page's currentPage is at least 1 and at most max(1, totalPages)
CurrentPageInRange ==
    /\ 1 <= ui.currentPage
    /\ ui.currentPage <= (IF ui.totalPages < 1 THEN 1 ELSE ui.totalPages)

============================================================================
